---- MODULE Spec2Model ----
(***************************************************************************)
(* Model of core/C18_parallel_executor.py: run_in_parallel, chunk_tasks    *)
(* and run_batches, with the worker pool of concurrent.futures that        *)
(* run_in_parallel drives (submit, the pool's FIFO work queue, its workers,*)
(* as_completed, and the shutdown(wait=True) of the `with` block).         *)
(*                                                                         *)
(* One behaviour is one top-level call (op) with its arguments chosen in   *)
(* Init.  A unit of work is identified by the position of its task in the  *)
(* caller's list (all_tasks); run_in_parallel never looks at a task value, *)
(* it only hands it to func, so the list is <<1, ..., n>> and func is any  *)
(* assignment of an outcome (return, raise Exception, raise a              *)
(* BaseException that is no Exception) to the tasks.                       *)
(*                                                                         *)
(* The pool is taken to work: threads start, and in process mode func and  *)
(* the tasks can be sent to the workers and no worker process dies.  The   *)
(* two executor classes then behave alike.                                 *)
(*                                                                         *)
(* as_completed first yields the futures already finished, in the order of *)
(* a set, then the others as they finish; since all of them may be         *)
(* finished when it starts, it can yield in any order, and Collect takes   *)
(* any finished future.                                                    *)
(*                                                                         *)
(* Two more calls are modelled, each with a specification of its own:      *)
(* api_request of core/C19_api_manager.py (SpecApi), where every attempt   *)
(* ends in one of the outcomes the code tells apart (a response that is ok *)
(* or not, requests.Timeout, requests.ConnectionError, another Exception), *)
(* and purge_old_backups with list_backups of core/C10_file_backup.py      *)
(* (SpecPurge), over a directory of backups with modification times, where *)
(* glob may list the files in any order and every unlink may fail.         *)
(***************************************************************************)
EXTENDS Integers, Sequences, FiniteSets

\* ---------------------------------------------------------------- bounds
MaxLen == 3
MaxWorkers == 2
MaxChunk == 3
MaxDelay == 1
MaxRetries == 3
MaxBackups == 3
MaxTime == 2

\* ------------------------------------------------------- program constants
DefaultMaxWorkers == 8
None == 0
PauseSeconds == 2

Modes == {"thread", "process", "other"}
Raises == {"return", "Exception", "BaseException"}
AttemptOutcomes == {"ok", "not_ok", "Timeout", "ConnectionError", "Exception"}

VARIABLES
    \* the top-level call and its arguments (lines 51-57, 132)
    op, func, all_tasks, chunk_size, delay,
    \* run_batches (lines 150-163): position, chunks, loop index i,
    \* all_results, and the time.sleep calls made so far; a call of chunk_tasks
    \* on its own keeps its position in bpc and its return value in chunks
    bpc, chunks, i, all_results, slept,
    \* run_in_parallel (lines 51-105): position, parameters; offset is the
    \* index in all_tasks before the first task of this call
    pc, tasks, offset, mode, max_workers, show_progress,
    \* run_in_parallel locals: results, executor_class, the pool, the futures
    \* submitted, those as_completed has yielded, the exception in flight, the
    \* returned list, the tqdm counter
    results, executor_class, pool, futures, yielded, exc, ret, progress,
    \* per unit: the state of its future and the number of calls of func;
    \* the logger.error entries
    future, calls, log

VARIABLES
    \* api_request (C19_api_manager.py, lines 51-122): position, retries,
    \* attempt, how each attempt made so far ended, the time.sleep calls, and
    \* the value returned: the number of the attempt whose response it is, or
    \* None
    apc, retries, attempt, outcomes, pauses, response,
    \* purge_old_backups (C10_file_backup.py, lines 111-132): position,
    \* keep_latest, the modification time of every backup of the file present
    \* at the call, the backups still on disk, the locals backups and
    \* to_delete, the position of `old` in to_delete, the backups whose
    \* unlink failed
    kpc, keep_latest, mtime, existing, backups, to_delete, old, failed

args == <<op, func, all_tasks, chunk_size, delay>>
batch == <<bpc, chunks, i, all_results, slept>>
params == <<tasks, offset, mode, max_workers, show_progress>>
frame == <<results, executor_class, pool, futures, yielded, exc, ret, progress>>
request == <<apc, retries, attempt, outcomes, pauses, response>>
purge == <<kpc, keep_latest, mtime, existing, backups, to_delete, old, failed>>
vars == <<args, batch, pc, params, frame, future, calls, log, request, purge>>

\* ------------------------------------------------------------- helpers
Min(a, b) == IF a < b THEN a ELSE b
Max(a, b) == IF a > b THEN a ELSE b

\* The value func returns for task t when it returns: one value per task, so
\* that the place of every result in a list can be told.
FuncValue(t) == t * t

\* No check of func at all.
CallableUnchecked(f) == TRUE
\* callable(func)
Callable(f) == f.callable

\* A handler for one specific exception type, which matches neither outcome.
IsExceptionNarrow(e) == FALSE
\* `except Exception` catches every exception but a bare BaseException
\* (SystemExit, KeyboardInterrupt, GeneratorExit).
IsException(e) == e = "Exception"

\* A handler that logs and appends nothing.
AppendFailureSkip(rs) == rs
\* A handler that appends another marker than None.
AppendFailureMarker(rs) == Append(rs, -1)
\* results.append(None) of the per-task handler.
AppendFailure(rs) == Append(rs, None)

\* The units of the current run_in_parallel call, by position in all_tasks.
CallUnits == (offset + 1) .. (offset + Len(tasks))

\* A comprehension that stops one task short.
SubmitAllButLast == (offset + 1) .. (offset + Len(tasks) - 1)
\* The futures of the dict comprehension: one submit per task.
SubmitAll == CallUnits

\* A completion test that takes a running unit for a finished one.
FinishedEarly(g) == future[g] # "PENDING"
\* A future is done once its worker has finished running func.
Finished(g) == future[g] = "FINISHED"

\* shutdown(wait=False): the call goes on while the workers run.
ShutdownNoWait == TRUE
\* Executor.__exit__ is shutdown(wait=True): it joins the workers, which first
\* drain the queue.
ShutdownWait == \A g \in futures : Finished(g)

\* `if i <= len(chunks)`: a delay after the last batch too.
NotLastBatchOffByOne == i <= Len(chunks)
\* A delay only after a batch that gave results.
NotLastBatchUnlessEmpty == i < Len(chunks) /\ ret # << >>
\* `if i < len(chunks)` of run_batches.
NotLastBatch == i < Len(chunks)

\* `if chunk_size <= 0` of chunk_tasks.
InvalidChunkSize(size) == size <= 0

\* range(0, len(task_list) - chunk_size + 1, chunk_size): full slices only.
SlicesFullOnly(task_list, size) ==
    [k \in 1 .. (Len(task_list) \div size) |->
        SubSeq(task_list, (k - 1) * size + 1, k * size)]
\* task_list[k : k + chunk_size + 1]: every slice runs one element into the next.
SlicesOverlapping(task_list, size) ==
    LET n == Len(task_list)
        count == (n + size - 1) \div size
    IN  [k \in 1 .. count |->
            SubSeq(task_list, (k - 1) * size + 1, Min(k * size + 1, n))]
\* Line 129: [task_list[k : k + chunk_size] for k in range(0, len(task_list),
\* chunk_size)]; range has ceil(len / chunk_size) elements and a slice stops
\* at the end of the list.
Slices(task_list, size) ==
    LET n == Len(task_list)
        count == (n + size - 1) \div size
    IN  [k \in 1 .. count |->
            SubSeq(task_list, (k - 1) * size + 1, Min(k * size, n))]

\* An invalid size answered with the whole list as one chunk.
chunk_tasks_whole(task_list, size) ==
    IF InvalidChunkSize(size) THEN <<task_list>> ELSE Slices(task_list, size)
\* chunk_tasks (lines 125-129); its logger.error is part of the calling action.
chunk_tasks(task_list, size) ==
    IF InvalidChunkSize(size) THEN << >> ELSE Slices(task_list, size)

\* Line 97: logger.error(f"Task failed: {e}"): the entry carries the text of
\* the exception and nothing of the task t or of its index.
TaskFailedEntry(t) == "task_failed"

\* A loop with no handler of its own around future.result().
CaughtNowhere(e) == FALSE
\* Line 96: the `except Exception` around future.result().
CaughtPerTask(e) == IsException(e)

\* An iterator that waits for a completion before it can end.
ExhaustedAfterOne == yielded = futures /\ futures # {}
\* as_completed is exhausted once it has yielded every future it was given.
IteratorExhausted == yielded = futures

\* Line 89: as_completed(futures) yields a future it has not yielded yet, once
\* that future is finished.
AsCompletedYields(g) == g \in futures \ yielded /\ Finished(g)

\* tqdm(futures, ...): the keys of the dict in submission order, each one
\* waited for in turn.
TqdmOverDict(g) == AsCompletedYields(g) /\ \A h \in futures \ yielded : g <= h
\* Line 91: tqdm(iterator, ...) hands on each element of the iterator it wraps
\* as that iterator yields it, and counts it.
TqdmYields(g) == AsCompletedYields(g)

\* Lines 89-93: the iterator of the for loop.
IteratorYields(g) == IF show_progress THEN TqdmYields(g) ELSE AsCompletedYields(g)

\* A pool that starts a worker for every queued unit.
WorkerAlwaysFree == TRUE
\* Workers that end after their first unit.
WorkerNotReused ==
    Cardinality({h \in futures : future[h] \in {"RUNNING", "FINISHED"}}) < max_workers
\* Line 86: the pool has max_workers workers; one is free while fewer units
\* than that are running.
WorkerFree == Cardinality({h \in futures : future[h] = "RUNNING"}) < max_workers

\* The new batch put in front of the earlier ones.
ExtendInFront(rs, r) == r \o rs
\* Line 158: all_results.extend(results).
Extend(rs, r) == rs \o r

\* The lists of length at most n over the values S.
SeqsUpTo(S, n) == UNION {[1 .. k -> S] : k \in 0 .. n}

\* ---------------------------------------------------------------- Init
Funcs ==
    {[callable |-> FALSE, raises |-> [t \in 1 .. MaxLen |-> "return"]]}
    \cup {[callable |-> TRUE, raises |-> r] : r \in [1 .. MaxLen -> Raises]}

\* api_request is not running.
RequestIdle ==
    /\ apc = "idle"
    /\ retries = 0
    /\ attempt = 0
    /\ outcomes = << >>
    /\ pauses = << >>
    /\ response = None

\* purge_old_backups is not running.
PurgeIdle ==
    /\ kpc = "idle"
    /\ keep_latest = 0
    /\ mtime = << >>
    /\ existing = {}
    /\ backups = << >>
    /\ to_delete = << >>
    /\ old = 0
    /\ failed = {}

Init ==
    /\ RequestIdle
    /\ PurgeIdle
    /\ op \in {"run_in_parallel", "run_batches", "chunk_tasks"}
    /\ IF op = "chunk_tasks"
       THEN /\ all_tasks \in SeqsUpTo(1 .. MaxLen, MaxLen)
            /\ func = [callable |-> FALSE, raises |-> [t \in 1 .. MaxLen |-> "return"]]
       ELSE \E n \in 0 .. MaxLen :
               /\ all_tasks = [t \in 1 .. n |-> t]
               /\ func \in {f \in Funcs :
                               \A t \in (n + 1) .. MaxLen : f.raises[t] = "return"}
    /\ IF op = "run_in_parallel"
       THEN /\ tasks = all_tasks
            /\ mode \in Modes
            /\ max_workers \in (0 .. MaxWorkers) \cup {DefaultMaxWorkers}
            /\ show_progress \in BOOLEAN
            /\ chunk_size = 1
            /\ delay = 0
            /\ pc = "enter"
            /\ bpc = "idle"
       ELSE /\ tasks = << >>
            /\ mode = "thread"
            /\ max_workers = DefaultMaxWorkers
            /\ show_progress = FALSE
            /\ chunk_size \in (-1) .. MaxChunk
            /\ delay \in IF op = "run_batches" THEN 0 .. MaxDelay ELSE {0}
            /\ pc = "idle"
            /\ bpc = IF op = "run_batches" THEN "enter" ELSE "chunk_enter"
    /\ offset = 0
    /\ chunks = << >>
    /\ i = 0
    /\ all_results = << >>
    /\ slept = << >>
    /\ results = << >>
    /\ executor_class = "none"
    /\ pool = "none"
    /\ futures = {}
    /\ yielded = {}
    /\ exc = "none"
    /\ ret = << >>
    /\ progress = 0
    /\ future = [g \in 1 .. Len(all_tasks) |-> "NONE"]
    /\ calls = [g \in 1 .. Len(all_tasks) |-> 0]
    /\ log = << >>

\* ------------------------------------------------------ run_in_parallel
\* Lines 77-83: the callable check, results = [], the executor class.
RipEnter ==
    /\ pc = "enter"
    /\ IF ~Callable(func)
       THEN /\ log' = Append(log, "not_callable")
            /\ ret' = << >>
            /\ pc' = "returned"
            /\ UNCHANGED <<results, executor_class>>
       ELSE /\ results' = << >>
            /\ executor_class' =
                  IF mode = "thread" THEN "ThreadPoolExecutor" ELSE "ProcessPoolExecutor"
            /\ pc' = "construct"
            /\ UNCHANGED <<log, ret>>
    /\ UNCHANGED <<request, purge, args, batch, params, pool, futures, yielded, exc, progress,
                   future, calls>>

\* Line 86: executor_class(max_workers=max_workers) raises ValueError for
\* max_workers <= 0, before the with block is entered.
PoolConstruct ==
    /\ pc = "construct"
    /\ IF max_workers <= 0
       THEN /\ exc' = "Exception"
            /\ pc' = "except"
            /\ UNCHANGED pool
       ELSE /\ pool' = "open"
            /\ pc' = "submit"
            /\ UNCHANGED exc
    /\ UNCHANGED <<request, purge, args, batch, params, results, executor_class, futures, yielded,
                   ret, progress, future, calls, log>>

\* Line 87: every task is submitted; its future is pending in the pool's queue.
Submit ==
    /\ pc = "submit"
    /\ futures' = SubmitAll
    /\ future' = [g \in DOMAIN future |->
                     IF g \in SubmitAll THEN "PENDING" ELSE future[g]]
    /\ pc' = "collect"
    /\ UNCHANGED <<request, purge, args, batch, params, results, executor_class, pool, yielded,
                   exc, ret, progress, calls, log>>

\* A worker of the pool takes the oldest queued unit and calls func on it; at
\* most max_workers workers exist.
WorkerStart(g) ==
    /\ g \in futures
    /\ future[g] = "PENDING"
    /\ \A h \in futures : future[h] = "PENDING" => g <= h
    /\ WorkerFree
    /\ future' = [future EXCEPT ![g] = "RUNNING"]
    /\ calls' = [calls EXCEPT ![g] = @ + 1]
    /\ UNCHANGED <<request, purge, args, batch, pc, params, frame, log>>

\* func returns or raises; the worker stores the outcome in the future.
WorkerFinish(g) ==
    /\ g \in DOMAIN future
    /\ future[g] = "RUNNING"
    /\ future' = [future EXCEPT ![g] = "FINISHED"]
    /\ UNCHANGED <<request, purge, args, batch, pc, params, frame, calls, log>>

\* Lines 89-98: as_completed yields a finished future (any of them); its result
\* is appended, or None after an Exception; anything else propagates.
Collect(g) ==
    /\ pc = "collect"
    /\ IteratorYields(g)
    /\ yielded' = yielded \cup {g}
    /\ progress' = IF show_progress THEN progress + 1 ELSE progress
    /\ LET t == all_tasks[g]
           e == func.raises[t]
       IN  IF e = "return"
           THEN /\ results' = Append(results, FuncValue(t))
                /\ UNCHANGED <<log, exc, pc>>
           ELSE IF CaughtPerTask(e)
           THEN /\ log' = Append(log, TaskFailedEntry(t))
                /\ results' = AppendFailure(results)
                /\ UNCHANGED <<exc, pc>>
           ELSE /\ exc' = e
                /\ pc' = "exit"
                /\ UNCHANGED <<log, results>>
    /\ UNCHANGED <<request, purge, args, batch, params, executor_class, pool, futures, ret,
                   future, calls>>

\* Line 93: the iterator is exhausted once every future has been yielded.
LoopEnd ==
    /\ pc = "collect"
    /\ IteratorExhausted
    /\ pc' = "exit"
    /\ UNCHANGED <<request, purge, args, batch, params, frame, future, calls, log>>

\* Line 86 (__exit__) and lines 100-101: the pool is shut down, waiting for its
\* workers; then the results are returned, or the exception goes on.
PoolExit ==
    /\ pc = "exit"
    /\ ShutdownWait
    /\ pool' = "shutdown"
    /\ IF exc = "none"
       THEN /\ ret' = results
            /\ pc' = "returned"
       ELSE /\ pc' = "except"
            /\ UNCHANGED ret
    /\ UNCHANGED <<request, purge, args, batch, params, results, executor_class, futures, yielded,
                   exc, progress, future, calls, log>>

\* Lines 103-105: `except Exception` logs and returns []; a BaseException leaves
\* the function.
ExceptHandler ==
    /\ pc = "except"
    /\ IF IsException(exc)
       THEN /\ log' = Append(log, "parallel_error")
            /\ ret' = << >>
            /\ pc' = "returned"
       ELSE /\ pc' = "raised"
            /\ UNCHANGED <<log, ret>>
    /\ UNCHANGED <<request, purge, args, batch, params, results, executor_class, pool, futures,
                   yielded, exc, progress, future, calls>>

\* ---------------------------------------------------------- run_batches
\* Lines 150-153: all_results = [], chunks = chunk_tasks(...), which logs an
\* error for chunk_size <= 0.
BatchEnter ==
    /\ bpc = "enter"
    /\ all_results' = << >>
    /\ chunks' = chunk_tasks(all_tasks, chunk_size)
    /\ log' = IF InvalidChunkSize(chunk_size) THEN Append(log, "chunk_size") ELSE log
    /\ i' = 1
    /\ bpc' = "loop"
    /\ UNCHANGED <<request, purge, args, slept, pc, params, frame, future, calls>>

\* A chunk_tasks that cuts its chunks off the caller's list
\* (del task_list[:chunk_size]).
ChunkTasksConsuming ==
    /\ bpc = "chunk_enter"
    /\ chunks' = chunk_tasks(all_tasks, chunk_size)
    /\ all_tasks' = IF InvalidChunkSize(chunk_size) THEN all_tasks ELSE << >>
    /\ log' = IF InvalidChunkSize(chunk_size) THEN Append(log, "chunk_size") ELSE log
    /\ bpc' = "chunk_returned"
    /\ UNCHANGED <<request, purge, op, func, chunk_size, delay, i, all_results,
                   slept, pc, params, frame, future, calls>>

\* chunk_tasks called on its own (lines 111-129): the chunks are its return
\* value, kept in chunks.
ChunkTasksCall ==
    /\ bpc = "chunk_enter"
    /\ chunks' = chunk_tasks(all_tasks, chunk_size)
    /\ log' = IF InvalidChunkSize(chunk_size) THEN Append(log, "chunk_size") ELSE log
    /\ bpc' = "chunk_returned"
    /\ UNCHANGED <<request, purge, args, i, all_results, slept, pc, params, frame, future, calls>>

\* Lines 155-157: the next chunk is handed to run_in_parallel(func, chunk,
\* mode="thread", show_progress=False), max_workers at its default.
BatchCall ==
    /\ bpc = "loop"
    /\ i <= Len(chunks)
    /\ tasks' = chunks[i]
    /\ offset' = (i - 1) * chunk_size
    /\ mode' = "thread"
    /\ max_workers' = DefaultMaxWorkers
    /\ show_progress' = FALSE
    /\ results' = << >>
    /\ executor_class' = "none"
    /\ pool' = "none"
    /\ futures' = {}
    /\ yielded' = {}
    /\ exc' = "none"
    /\ ret' = << >>
    /\ progress' = 0
    /\ pc' = "enter"
    /\ bpc' = "call"
    /\ UNCHANGED <<request, purge, args, chunks, i, all_results, slept, future, calls, log>>

\* Lines 158-159: all_results.extend(results); the last batch takes no delay.
BatchExtend ==
    /\ bpc = "call"
    /\ pc = "returned"
    /\ all_results' = Extend(all_results, ret)
    /\ IF NotLastBatch
       THEN /\ bpc' = "sleep"
            /\ UNCHANGED i
       ELSE /\ bpc' = "loop"
            /\ i' = i + 1
    /\ UNCHANGED <<request, purge, args, chunks, slept, pc, params, frame, future, calls, log>>

\* An exception that left run_in_parallel leaves run_batches too (no handler).
BatchPropagate ==
    /\ bpc = "call"
    /\ pc = "raised"
    /\ bpc' = "raised"
    /\ UNCHANGED <<request, purge, args, chunks, i, all_results, slept, pc, params, frame, future,
                   calls, log>>

\* Line 160: time.sleep(delay).
BatchSleep ==
    /\ bpc = "sleep"
    /\ slept' = Append(slept, delay)
    /\ i' = i + 1
    /\ bpc' = "loop"
    /\ UNCHANGED <<request, purge, args, chunks, all_results, pc, params, frame, future, calls, log>>

\* Lines 162-163: the loop is over; all_results is returned.
BatchReturn ==
    /\ bpc = "loop"
    /\ i > Len(chunks)
    /\ bpc' = "returned"
    /\ UNCHANGED <<request, purge, args, chunks, i, all_results, slept, pc, params, frame, future,
                   calls, log>>

Next ==
    \/ RipEnter
    \/ PoolConstruct
    \/ Submit
    \/ \E g \in 1 .. MaxLen : WorkerStart(g)
    \/ \E g \in 1 .. MaxLen : WorkerFinish(g)
    \/ \E g \in 1 .. MaxLen : Collect(g)
    \/ LoopEnd
    \/ PoolExit
    \/ ExceptHandler
    \/ BatchEnter
    \/ BatchCall
    \/ BatchExtend
    \/ BatchPropagate
    \/ BatchSleep
    \/ BatchReturn
    \/ ChunkTasksCall

Spec == Init /\ [][Next]_vars

\* Neither run_in_parallel, run_batches nor chunk_tasks is running.
ExecutorIdle ==
    /\ func = [callable |-> FALSE, raises |-> [t \in 1 .. MaxLen |-> "return"]]
    /\ all_tasks = << >>
    /\ chunk_size = 1
    /\ delay = 0
    /\ bpc = "idle"
    /\ chunks = << >>
    /\ i = 0
    /\ all_results = << >>
    /\ slept = << >>
    /\ pc = "idle"
    /\ tasks = << >>
    /\ offset = 0
    /\ mode = "thread"
    /\ max_workers = DefaultMaxWorkers
    /\ show_progress = FALSE
    /\ results = << >>
    /\ executor_class = "none"
    /\ pool = "none"
    /\ futures = {}
    /\ yielded = {}
    /\ exc = "none"
    /\ ret = << >>
    /\ progress = 0
    /\ future = << >>
    /\ calls = << >>
    /\ log = << >>

executor == <<args, batch, pc, params, frame, future, calls, log>>

\* ---------------------------------------------------------- api_request
\* Lines 111-116: the three except clauses of the attempt; the last one is
\* `except Exception`.
ApiCaught(o) == o \in {"Timeout", "ConnectionError", "Exception"}

\* A pause after every failed attempt.
PauseAlways == TRUE
\* Line 118: `if attempt < retries` before time.sleep(2).
PauseDue == attempt < retries

ApiInit ==
    /\ op = "api_request"
    /\ ExecutorIdle
    /\ PurgeIdle
    /\ apc = "while"
    /\ retries \in (-1) .. MaxRetries
    /\ attempt = 0
    /\ outcomes = << >>
    /\ pauses = << >>
    /\ response = None

\* Lines 89-90 and 121-122: `while attempt < retries`: the next attempt is
\* numbered, or the loop is over and None is returned.
ApiWhile ==
    /\ apc = "while"
    /\ IF attempt < retries
       THEN /\ attempt' = attempt + 1
            /\ apc' = "request"
            /\ UNCHANGED response
       ELSE /\ response' = None
            /\ apc' = "returned"
            /\ UNCHANGED attempt
    /\ UNCHANGED <<executor, purge, retries, outcomes, pauses>>

\* Lines 91-116: one requests.request call: an ok response is returned, a
\* response that is not ok and a caught exception go on to line 118.
ApiAttempt(o) ==
    /\ apc = "request"
    /\ outcomes' = Append(outcomes, o)
    /\ IF o = "ok"
       THEN /\ response' = attempt
            /\ apc' = "returned"
       ELSE /\ apc' = IF o = "not_ok" \/ ApiCaught(o) THEN "pause" ELSE "raised"
            /\ UNCHANGED response
    /\ UNCHANGED <<executor, purge, retries, attempt, pauses>>

\* Lines 118-119: time.sleep(2) when another attempt is to follow.
ApiPause ==
    /\ apc = "pause"
    /\ pauses' = IF PauseDue THEN Append(pauses, PauseSeconds) ELSE pauses
    /\ apc' = "while"
    /\ UNCHANGED <<executor, purge, retries, attempt, outcomes, response>>

ApiNext ==
    \/ ApiWhile
    \/ \E o \in AttemptOutcomes : ApiAttempt(o)
    \/ ApiPause

SpecApi == ApiInit /\ [][ApiNext]_vars

\* ---------------------------------------------------- purge_old_backups
\* The orders sorted(glob(pattern), key=st_mtime, reverse=True) can give for
\* the files S: newest first; files of one modification time stay in the
\* order glob listed them, which is any order.
NewestFirst(S) ==
    {p \in [1 .. Cardinality(S) -> S] :
        /\ \A a, b \in 1 .. Cardinality(S) : a # b => p[a] # p[b]
        /\ \A a, b \in 1 .. Cardinality(S) : a < b => mtime[p[a]] >= mtime[p[b]]}

\* list_backups (lines 90-105).
list_backups == NewestFirst(existing)

\* The slice s[k:] of Python: a negative k counts from the end of the list,
\* and the start is clipped to the list.
SliceFrom(s, k) ==
    LET n == Len(s)
        start == IF k < 0 THEN Max(n + k, 0) ELSE Min(k, n)
    IN  SubSeq(s, start + 1, n)

PurgeInit ==
    /\ op = "purge_old_backups"
    /\ ExecutorIdle
    /\ RequestIdle
    /\ kpc = "enter"
    /\ keep_latest \in (-MaxBackups) .. (MaxBackups + 1)
    /\ \E n \in 0 .. MaxBackups : mtime \in [1 .. n -> 1 .. MaxTime]
    /\ existing = DOMAIN mtime
    /\ backups = << >>
    /\ to_delete = << >>
    /\ old = 0
    /\ failed = {}

\* Line 119: backups = list_backups(file_path).
PurgeList ==
    /\ kpc = "enter"
    /\ backups' \in list_backups
    /\ kpc' = "check"
    /\ UNCHANGED <<executor, request, keep_latest, mtime, existing, to_delete, old,
                   failed>>

\* Lines 120-124: nothing to do within the limit; otherwise
\* to_delete = backups[keep_latest:].
PurgeCheck ==
    /\ kpc = "check"
    /\ IF Len(backups) <= keep_latest
       THEN /\ kpc' = "returned"
            /\ UNCHANGED <<to_delete, old>>
       ELSE /\ to_delete' = SliceFrom(backups, keep_latest)
            /\ old' = 1
            /\ kpc' = "delete"
    /\ UNCHANGED <<executor, request, keep_latest, mtime, existing, backups, failed>>

\* Lines 125-130: old.unlink(), which removes the file or raises; the
\* exception is logged and the loop goes on.
PurgeUnlink ==
    /\ kpc = "delete"
    /\ old <= Len(to_delete)
    /\ \/ /\ existing' = existing \ {to_delete[old]}
          /\ UNCHANGED failed
       \/ /\ failed' = failed \cup {to_delete[old]}
          /\ UNCHANGED existing
    /\ old' = old + 1
    /\ UNCHANGED <<executor, request, kpc, keep_latest, mtime, backups, to_delete>>

\* Line 132: the loop is over.
PurgeReturn ==
    /\ kpc = "delete"
    /\ old > Len(to_delete)
    /\ kpc' = "returned"
    /\ UNCHANGED <<executor, request, keep_latest, mtime, existing, backups,
                   to_delete, old, failed>>

PurgeNext ==
    \/ PurgeList
    \/ PurgeCheck
    \/ PurgeUnlink
    \/ PurgeReturn

SpecPurge == PurgeInit /\ [][PurgeNext]_vars

\* ------------------------------------------- the lists a call can return
\* What a unit leaves in the result list: func's value, or None after an
\* Exception.
Outcome(t) == IF func.raises[t] = "return" THEN FuncValue(t) ELSE None

CompletionOrders(n) == {p \in [1 .. n -> 1 .. n] : \A a, b \in 1 .. n : a # b => p[a] # p[b]}

\* run_in_parallel(func, ts) with a pool that constructs: results are appended
\* in the order as_completed yields, so every order of the outcomes; no list
\* when a unit raises a BaseException; [] when func is not callable.
RipReturnSet(ts) ==
    IF ~Callable(func)
    THEN {<< >>}
    ELSE IF \E j \in 1 .. Len(ts) : func.raises[ts[j]] = "BaseException"
    THEN {}
    ELSE {[j \in 1 .. Len(ts) |-> Outcome(ts[p[j]])] : p \in CompletionOrders(Len(ts))}

\* run_batches: the per-chunk lists, extended in chunk order.
RECURSIVE ExtendAll(_)
ExtendAll(cs) ==
    IF cs = << >>
    THEN {<< >>}
    ELSE {a \o b : a \in RipReturnSet(Head(cs)), b \in ExtendAll(Tail(cs))}

BatchReturnSet(ts, size) == ExtendAll(chunk_tasks(ts, size))

\* ------------------------------------------------------------- claims
RipReturned == pc = "returned" /\ Callable(func) /\ max_workers >= 1
RipEnded == pc \in {"returned", "raised"} /\ Callable(func) /\ max_workers >= 1
Failing == {g \in CallUnits : func.raises[all_tasks[g]] # "return"}

\* C1: the list run_in_parallel returns holds f(tasks[j]) at position j for
\* every j whose invocation does not raise (input order, not completion order).
C1_InputOrder ==
    RipReturned =>
        \A j \in 1 .. Len(tasks) :
            func.raises[tasks[j]] = "return" =>
                j <= Len(ret) /\ ret[j] = FuncValue(tasks[j])

\* C2: with a callable func and a pool that constructs, the returned list has
\* one entry per task, however many units raise.
C2_SameLength == RipReturned => Len(ret) = Len(tasks)

C2_Witness ==
    /\ RipReturned
    /\ Len(tasks) >= 2
    /\ Failing # {}
    /\ Failing # CallUnits

\* C3: when func raises for a proper subset of the inputs, the failing
\* positions hold None and the other positions hold f(tasks[j]).
C3_SentinelAtFailingIndex ==
    (RipReturned /\ Failing # {} /\ Failing # CallUnits) =>
        /\ Len(ret) = Len(tasks)
        /\ \A j \in 1 .. Len(tasks) : ret[j] = Outcome(tasks[j])

C5_ExactlyOnce ==
    /\ \A g \in DOMAIN calls : calls[g] <= 1
    /\ RipEnded => \A g \in CallUnits : calls[g] = 1 /\ future[g] = "FINISHED"

C5_Witness ==
    /\ RipEnded
    /\ max_workers = 1
    /\ Len(tasks) >= 2
    /\ func.raises[tasks[1]] # "return"
    /\ \A g \in CallUnits : calls[g] = 1

\* C6: when run_in_parallel has ended, by returning or by an exception out of
\* the pool block, the pool is shut down and every submitted unit has run and
\* finished: none is still running and none was cancelled.
C6_JoinedOnReturn ==
    (pc \in {"returned", "raised"} /\ pool # "none") =>
        /\ pool = "shutdown"
        /\ futures = CallUnits
        /\ \A g \in futures : future[g] = "FINISHED" /\ calls[g] = 1

C6_Witness ==
    /\ pc = "raised"
    /\ pool = "shutdown"
    /\ yielded # futures
    /\ \A g \in futures : future[g] = "FINISHED"

\* C7: run_batches with chunk_size >= 1 returns a flat list with the length and
\* the order of items: entry k is the outcome of items[k].
C7_BatchesInInputOrder ==
    (bpc = "returned" /\ chunk_size >= 1 /\ Callable(func)) =>
        /\ Len(all_results) = Len(all_tasks)
        /\ \A k \in 1 .. Len(all_tasks) : all_results[k] = Outcome(all_tasks[k])

\* C8: the lists run_batches can return are the lists run_in_parallel (thread
\* mode, default workers) can return, for every chunk_size >= 1.
C8_BatchingTransparent ==
    /\ (bpc = "returned" /\ chunk_size >= 1) => all_results \in RipReturnSet(all_tasks)
    /\ (op = "run_in_parallel" /\ pc = "returned" /\ mode = "thread"
            /\ max_workers = DefaultMaxWorkers) =>
          \A size \in 1 .. MaxChunk : ret \in BatchReturnSet(all_tasks, size)

\* The return sets are sound for the calls of the model: whatever a call
\* returns is in its set.
ReturnSetsSound ==
    /\ (pc = "returned" /\ max_workers >= 1) => ret \in RipReturnSet(tasks)
    /\ bpc = "returned" => all_results \in BatchReturnSet(all_tasks, chunk_size)

\* C9: batches do not overlap: once a unit of a later batch is submitted or
\* running, every unit of every earlier batch has finished.
BatchOf(g) == ((g - 1) \div chunk_size) + 1

C9_BatchesSequential ==
    (op = "run_batches" /\ chunk_size >= 1) =>
        \A g, h \in DOMAIN future :
            (BatchOf(g) < BatchOf(h) /\ future[h] # "NONE") => future[g] = "FINISHED"

C9_Witness ==
    /\ op = "run_batches"
    /\ chunk_size >= 2
    /\ Len(chunks) >= 2
    /\ \E h \in DOMAIN future : BatchOf(h) = 2 /\ future[h] = "RUNNING"
    /\ \A g \in DOMAIN future : BatchOf(g) = 1 => calls[g] = 1

\* C10: run_batches sleeps `delay` once after each batch but the last: batch k
\* starts after k-1 sleeps, the sleep after batch k is taken once the batch
\* has returned and before batch k+1 is submitted, and a call that returns has
\* slept max(B-1, 0) times.
C10_DelayBetweenBatches ==
    op = "run_batches" =>
        /\ \A k \in DOMAIN slept : slept[k] = delay
        /\ bpc = "call" => Len(slept) = i - 1
        /\ bpc = "sleep" =>
              /\ pc = "returned"
              /\ i < Len(chunks)
              /\ Len(slept) = i - 1
              /\ \A g \in DOMAIN future :
                    /\ BatchOf(g) <= i => future[g] \in {"NONE", "FINISHED"}
                    /\ BatchOf(g) > i => future[g] = "NONE"
        /\ bpc = "returned" => Len(slept) = Max(Len(chunks) - 1, 0)

C10_Witness ==
    /\ bpc = "returned"
    /\ Len(chunks) >= 3
    /\ Len(slept) = Len(chunks) - 1
    /\ delay > 0

\* C11: for chunk_size >= 1 the chunks of chunk_tasks, concatenated in order,
\* are the list itself: nothing dropped, duplicated or moved.
RECURSIVE Concatenation(_)
Concatenation(cs) == IF cs = << >> THEN << >> ELSE Head(cs) \o Concatenation(Tail(cs))

ChunksReturned == bpc \notin {"idle", "enter", "chunk_enter"}

C11_ChunksLossless ==
    (ChunksReturned /\ chunk_size >= 1) => Concatenation(chunks) = all_tasks

C11_Witness ==
    /\ bpc = "chunk_returned"
    /\ Len(chunks) >= 2
    /\ Len(chunks[Len(chunks)]) < chunk_size
    /\ \E a, b \in DOMAIN all_tasks : a < b /\ all_tasks[a] >= all_tasks[b]

\* C12: for chunk_size >= 1 every chunk but the last has exactly chunk_size
\* elements, the last has between 1 and chunk_size, and chunk k is the slice
\* of the list that starts right after chunk k-1.
C12_ChunkShape ==
    (ChunksReturned /\ chunk_size >= 1) =>
        \A k \in DOMAIN chunks :
            /\ k < Len(chunks) => Len(chunks[k]) = chunk_size
            /\ Len(chunks[k]) >= 1
            /\ Len(chunks[k]) <= chunk_size
            /\ (k - 1) * chunk_size + Len(chunks[k]) <= Len(all_tasks)
            /\ \A j \in DOMAIN chunks[k] :
                  chunks[k][j] = all_tasks[(k - 1) * chunk_size + j]

C12_Witness ==
    /\ bpc = "chunk_returned"
    /\ chunk_size = 2
    /\ Len(all_tasks) = 3
    /\ Len(chunks) = 2
    /\ Len(chunks[1]) = 2
    /\ Len(chunks[2]) = 1

\* C13: chunk_tasks with chunk_size <= 0 returns [] and logs one error, for
\* every list, and returns normally.
C13_InvalidSizeEmpty ==
    (op = "chunk_tasks" /\ chunk_size <= 0) =>
        /\ bpc \in {"chunk_enter", "chunk_returned"}
        /\ bpc = "chunk_enter" => log = << >>
        /\ bpc = "chunk_returned" => chunks = << >> /\ log = <<"chunk_size">>

C13_Witness ==
    /\ bpc = "chunk_returned"
    /\ chunk_size < 0
    /\ Len(all_tasks) >= 2
    /\ chunks = << >>

\* C14: run_in_parallel with a func that is not callable logs an error and
\* returns [] with no pool created and no unit submitted or run.
C14_NotCallableAborts ==
    (op = "run_in_parallel" /\ ~func.callable) =>
        /\ pc \in {"enter", "returned"}
        /\ pool = "none"
        /\ executor_class = "none"
        /\ futures = {}
        /\ \A g \in DOMAIN future : future[g] = "NONE" /\ calls[g] = 0
        /\ pc = "enter" => log = << >>
        /\ pc = "returned" => ret = << >> /\ log = <<"not_callable">>

C14_Witness ==
    /\ op = "run_in_parallel"
    /\ ~func.callable
    /\ pc = "returned"
    /\ Len(tasks) >= 2
    /\ max_workers >= 1

\* C15: for a non-empty task list run_in_parallel returns [] only after a setup
\* failure (func not callable, or the pool not constructed: max_workers < 1);
\* every other call that returns gives one entry per task.
C15_EmptyOnlyOnSetupFailure ==
    (pc = "returned" /\ Len(tasks) >= 1) =>
        /\ ret = << >> <=> (~func.callable \/ max_workers < 1)
        /\ (func.callable /\ max_workers >= 1) => Len(ret) = Len(tasks)

C15_Witness ==
    /\ op = "run_in_parallel"
    /\ pc = "returned"
    /\ Len(tasks) >= 2
    /\ func.callable
    /\ max_workers = 0
    /\ ret = << >>
    /\ log = <<"parallel_error">>

\* C16: run_batches with chunk_size <= 0 does no work: func is never invoked,
\* no run_in_parallel call and no delay happen, one error is logged and the
\* returned list is empty.
C16_InvalidSizeNoWork ==
    (op = "run_batches" /\ chunk_size <= 0) =>
        /\ bpc \in {"enter", "loop", "returned"}
        /\ pc = "idle"
        /\ slept = << >>
        /\ all_results = << >>
        /\ \A g \in DOMAIN future : future[g] = "NONE" /\ calls[g] = 0
        /\ bpc # "enter" => chunks = << >> /\ log = <<"chunk_size">>

C16_Witness ==
    /\ op = "run_batches"
    /\ chunk_size <= 0
    /\ bpc = "returned"
    /\ Len(all_tasks) >= 2
    /\ func.callable

\* C17: only mode == "process" selects the process pool; every other mode,
\* recognised or not, gets the thread pool.
C17_UnknownModeIsThread ==
    (pc \notin {"idle", "enter"} /\ func.callable) =>
        /\ executor_class = "ProcessPoolExecutor" <=> mode = "process"
        /\ executor_class = "ThreadPoolExecutor" <=> mode # "process"

\* C18: run_in_parallel logs exactly one error per unit whose invocation
\* raised, none for the others, and the entry identifies the input: it is the
\* entry of that task and of no other.
Identifies(entry, t) ==
    /\ entry = TaskFailedEntry(t)
    /\ \A u \in (1 .. MaxLen) \ {t} : entry # TaskFailedEntry(u)

C18_ErrorNamesInput ==
    (op = "run_in_parallel" /\ RipReturned) =>
        /\ Len(log) = Cardinality(Failing)
        /\ \A g \in Failing : \E k \in DOMAIN log : Identifies(log[k], all_tasks[g])

\* C19: with an empty list and a callable func, run_in_parallel and run_batches
\* return [], submit nothing, sleep never, raise nothing, and never wait: until
\* the call has returned a step is always possible.
EmptyCall ==
    /\ op \in {"run_in_parallel", "run_batches"}
    /\ Len(all_tasks) = 0
    /\ func.callable

CallReturned ==
    \/ op = "run_in_parallel" /\ pc = "returned"
    \/ op = "run_batches" /\ bpc = "returned"

C19_EmptyInput ==
    EmptyCall =>
        /\ pc # "raised" /\ bpc # "raised"
        /\ futures = {}
        /\ slept = << >>
        /\ bpc \notin {"call", "sleep"}
        /\ CallReturned => ret = << >> /\ all_results = << >>
        /\ ~CallReturned => ENABLED Next

C19_Witness ==
    /\ EmptyCall
    /\ op = "run_in_parallel"
    /\ pc = "returned"
    /\ pool = "shutdown"
    /\ ret = << >>

\* C20: the number of workers does not change the result: a list returned with
\* any max_workers >= 1 equals every list the call can return with one worker
\* (RipReturnSet: the lists a call can return, the same for every pool size).
C20_WorkersDoNotMatter ==
    (op = "run_in_parallel" /\ RipReturned) =>
        \A r \in RipReturnSet(tasks) : ret = r

C22_AtMostMaxWorkersRunning ==
    op = "run_in_parallel" =>
        /\ Cardinality({g \in DOMAIN future : future[g] = "RUNNING"}) <= Max(max_workers, 0)
        /\ \A g \in futures : future[g] \in {"PENDING", "RUNNING", "FINISHED"}
        /\ \A g, h \in futures :
              (future[g] = "PENDING" /\ future[h] # "PENDING") => h < g

C22_Witness ==
    /\ op = "run_in_parallel"
    /\ max_workers = 2
    /\ Len(tasks) = 3
    /\ Cardinality({g \in futures : future[g] = "RUNNING"}) = 2
    /\ Cardinality({g \in futures : future[g] = "PENDING"}) = 1

\* C23: every unit gives at most one result entry, and only once it has
\* completed: the yielded futures are finished ones, there are no more entries
\* than finished units, there is one entry per yielded future whose result did
\* not propagate, and a step either leaves results alone or appends the entry
\* of one finished future that had not been yielded before.
C23_EntriesOfCompletedUnits ==
    op = "run_in_parallel" =>
        /\ yielded \subseteq {g \in futures : future[g] = "FINISHED"}
        /\ Len(results) <= Cardinality({g \in futures : future[g] = "FINISHED"})
        /\ Len(results) =
              Cardinality({g \in yielded : func.raises[all_tasks[g]] # "BaseException"})

C23_AppendOnly ==
    op = "run_in_parallel" =>
        \/ results' = results
        \/ \E g \in CallUnits :
              /\ g \notin yielded
              /\ g \in yielded'
              /\ future[g] = "FINISHED"
              /\ results' = Append(results, Outcome(all_tasks[g]))

C23_SlotFilledOnce == []C23_EntriesOfCompletedUnits /\ [][C23_AppendOnly]_vars

C23_Witness ==
    /\ op = "run_in_parallel"
    /\ pc = "collect"
    /\ Len(tasks) = 3
    /\ Len(results) = 1
    /\ Cardinality(yielded) = 1
    /\ Cardinality({g \in futures : future[g] = "FINISHED"}) = 2
    /\ \E g \in futures : future[g] = "RUNNING"

\* The scheduling the claim of termination assumes: a step that stays possible
\* is taken (every invocation of func ends, the threads of the pool and the
\* caller get to run, time.sleep ends).
FairSpec == Spec /\ WF_vars(Next)

CallEnded ==
    \/ op = "run_in_parallel" /\ pc \in {"returned", "raised"}
    \/ op = "run_batches" /\ bpc \in {"returned", "raised"}

SomeBaseException ==
    /\ func.callable
    /\ \E g \in DOMAIN all_tasks : func.raises[all_tasks[g]] = "BaseException"

C25_TasksIntact ==
    /\ op = "run_in_parallel" => tasks = all_tasks
    /\ (op = "run_batches" /\ pc # "idle") =>
          tasks = SubSeq(all_tasks, offset + 1, offset + Len(tasks))

C25_Frame ==
    /\ all_tasks' = all_tasks
    /\ op = "run_in_parallel" => tasks' = tasks
    /\ op = "chunk_tasks" =>
          /\ UNCHANGED <<func, chunk_size, delay, i, all_results, slept, pc, params,
                         frame, future, calls>>
          /\ log' # log => chunk_size <= 0 /\ log' = Append(log, "chunk_size")
          /\ chunk_size >= 1 => log' = log

C25_InputNotMutated == []C25_TasksIntact /\ [][C25_Frame]_vars

C25_Witness ==
    /\ op = "chunk_tasks"
    /\ bpc = "chunk_returned"
    /\ chunk_size = 1
    /\ Len(all_tasks) = 3
    /\ Len(chunks) = 3
    /\ log = << >>

\* C26: the list run_in_parallel returns (callable func, pool constructed) is a
\* permutation of the outcomes of its tasks: it has one entry per task and
\* every value occurs in it as often as among the outcomes.
Count(s, v) == Cardinality({k \in DOMAIN s : s[k] = v})

C26_PermutationOfOutcomes ==
    (op = "run_in_parallel" /\ RipReturned) =>
        /\ Len(ret) = Len(tasks)
        /\ \A v \in {None} \cup {FuncValue(t) : t \in 1 .. MaxLen} :
              Count(ret, v) = Cardinality({j \in DOMAIN tasks : Outcome(tasks[j]) = v})

C26_Witness ==
    /\ op = "run_in_parallel"
    /\ RipReturned
    /\ Len(tasks) = 3
    /\ Cardinality(Failing) = 2
    /\ ret[1] # Outcome(tasks[1])
    /\ Count(ret, None) = 2

\* C27: run_batches keeps the order of the batches: the results of a batch are
\* appended as one block, as long as the list run_in_parallel returned for it,
\* behind the blocks of the earlier batches, and nothing already in the list
\* moves; with a callable func entry p is the outcome of a task of the batch
\* that covers position p.
BatchesExtended ==
    IF bpc \in {"enter", "idle"} THEN 0
    ELSE IF bpc = "sleep" THEN i
    ELSE IF bpc = "returned" THEN Len(chunks)
    ELSE i - 1

C27_Blocks ==
    (op = "run_batches" /\ chunk_size >= 1) =>
        /\ Len(all_results) =
              IF func.callable
              THEN Min(BatchesExtended * chunk_size, Len(all_tasks))
              ELSE 0
        /\ \A p \in DOMAIN all_results :
              \E g \in DOMAIN all_tasks :
                  /\ BatchOf(g) = BatchOf(p)
                  /\ all_results[p] = Outcome(all_tasks[g])

C27_ExtendStep ==
    op = "run_batches" =>
        IF bpc = "call" /\ bpc' \in {"sleep", "loop"}
        THEN all_results' = all_results \o ret
        ELSE all_results' = all_results

C27_BatchGranularOrder == []C27_Blocks /\ [][C27_ExtendStep]_vars

C27_Witness ==
    /\ op = "run_batches"
    /\ bpc = "returned"
    /\ chunk_size = 2
    /\ Len(all_tasks) = 3
    /\ \A g \in DOMAIN all_tasks : func.raises[all_tasks[g]] = "return"
    /\ all_results = <<FuncValue(2), FuncValue(1), FuncValue(3)>>

C29_WitnessNone ==
    /\ op = "api_request"
    /\ apc = "returned"
    /\ retries = 2
    /\ outcomes = <<"ConnectionError", "Exception">>
    /\ response = None
    /\ Len(pauses) = 1

\* C30: after purge_old_backups has returned with every delete succeeding, at
\* most keep_latest backups (none for keep_latest < 0) remain, every backup
\* that remains is at least as recent as every backup deleted, and nothing is
\* deleted when there were no more than keep_latest backups.
C30_RetainsLatestN ==
    (op = "purge_old_backups" /\ kpc = "returned" /\ failed = {}) =>
        /\ Cardinality(existing) <= Max(keep_latest, 0)
        /\ \A a \in existing : \A b \in DOMAIN mtime \ existing : mtime[a] >= mtime[b]
        /\ Cardinality(DOMAIN mtime) <= keep_latest => existing = DOMAIN mtime

\* For keep_latest >= 0 the purge keeps the latest keep_latest backups.
PurgeNonNegative ==
    (op = "purge_old_backups" /\ kpc = "returned" /\ failed = {} /\ keep_latest >= 0) =>
        /\ Cardinality(existing) = Min(keep_latest, Cardinality(DOMAIN mtime))
        /\ \A a \in existing : \A b \in DOMAIN mtime \ existing : mtime[a] >= mtime[b]

TypeOK ==
    /\ pc \in {"idle", "enter", "construct", "submit", "collect", "exit", "except",
               "returned", "raised"}
    /\ bpc \in {"idle", "enter", "loop", "call", "sleep", "returned", "raised",
                "chunk_enter", "chunk_returned"}
    /\ \A g \in DOMAIN future : future[g] \in {"NONE", "PENDING", "RUNNING", "FINISHED"}
    /\ apc \in {"idle", "while", "request", "pause", "returned", "raised"}
    /\ kpc \in {"idle", "enter", "check", "delete", "returned"}
    /\ existing \subseteq DOMAIN mtime
====
